---- MODULE Spec2Model ----
(***************************************************************************)
(* The brand registry of the multi-brand site generator: the Style Table   *)
(* (src/styles/styles.config.ts), the Venture Table                        *)
(* (src/ventures/ventures.config.ts) and the accessor and export utilities *)
(* over both (src/utilities/venture.ts).                                   *)
(*                                                                         *)
(* Encoding of JavaScript values.                                          *)
(*  - A string is a TLA+ string; TLC's Len, SubSeq, Head, Tail and \o act  *)
(*    on it character by character.  Module text is ASCII, so the few      *)
(*    characters of the source outside ASCII are spelled {U+XXXX} (their   *)
(*    code point).  Only fields that are copied, never inspected           *)
(*    (description, note, the glyph of the md template) hold them.         *)
(*  - An object literal is the sequence of its <<key, value>> entries in   *)
(*    insertion order, which is what Object.entries and Object.keys        *)
(*    enumerate; a record of the tables is a TLA+ record, the order of     *)
(*    its properties being given by StyleProps / VentureProps.             *)
(*  - undefined and null are the records Undefined and Null.               *)
(*  - A value of unknown type (the argument of isValidVentureKey) is a     *)
(*    record [type |-> the result of typeof, v |-> the value].             *)
(*  - The two tables are module-level objects.  They are the state of the  *)
(*    program (styleTable, ventureTable); every function that reads them   *)
(*    in the source takes them here as its first parameters V and S.       *)
(*  - lastCall is the last call made, [fn |-> function, arg |-> argument]; *)
(*    result is how it ended: Return(value) or Throw(message).             *)
(***************************************************************************)
EXTENDS Integers, Sequences, FiniteSets, TLC

VARIABLES styleTable, ventureTable, lastCall, result

vars == <<styleTable, ventureTable, lastCall, result>>

Undefined == [type |-> "undefined"]

Null == [type |-> "null"]

-----------------------------------------------------------------------------
(* The tables.                                                             *)

\* export const styles (styles.config.ts)
orange_gradient ==
  [name |-> "Orange Gradient",
   primary |-> "#ff6b35",
   primaryLight |-> "#ff8555",
   secondary |-> "#434b4d",
   accent |-> "#000000",
   gradient |-> "linear-gradient(135deg, #ff6b35 0%, #ff8555 100%)",
   wcagContrast |-> "9.09:1",
   ral |-> "RAL 050 60 60",
   category |-> "primary",
   usage |-> "brainfruit main brand"]

blue_vibrant ==
  [name |-> "Blue Vibrant",
   primary |-> "#3399ff",
   primaryLight |-> "#4da9ff",
   secondary |-> "#434b4d",
   accent |-> "#000000",
   gradient |-> "linear-gradient(135deg, #3399ff 0%, #4da9ff 100%)",
   wcagContrast |-> "8.21:1",
   ral |-> "RAL 250 60 40",
   category |-> "primary",
   usage |-> "PRIMOVIVO brand"]

purple_deep ==
  [name |-> "Purple Deep",
   primary |-> "#8b5cf6",
   primaryLight |-> "#a78bfa",
   secondary |-> "#434b4d",
   accent |-> "#000000",
   gradient |-> "linear-gradient(135deg, #8b5cf6 0%, #a78bfa 100%)",
   wcagContrast |-> "7.52:1",
   ral |-> "RAL 290 50 35",
   category |-> "primary",
   usage |-> "Amorphing platform brand"]

emerald_fresh ==
  [name |-> "Emerald Fresh",
   primary |-> "#10b981",
   primaryLight |-> "#34d399",
   secondary |-> "#434b4d",
   accent |-> "#000000",
   gradient |-> "linear-gradient(135deg, #10b981 0%, #34d399 100%)",
   wcagContrast |-> "10.15:1",
   ral |-> "RAL 160 70 45",
   category |-> "primary",
   usage |-> "Venture-04 placeholder (awaiting business)"]

green_fresh ==
  [name |-> "Green Fresh",
   primary |-> "#22c55e",
   primaryLight |-> "#4ade80",
   secondary |-> "#434b4d",
   accent |-> "#000000",
   gradient |-> "linear-gradient(135deg, #22c55e 0%, #4ade80 100%)",
   wcagContrast |-> "6.5:1",
   ral |-> "RAL [TBD-pending physical verification]",
   category |-> "secondary",
   usage |-> "Green-P / environmental ventures",
   note |-> "RAL code awaiting physical f{U+00E4}cher validation"]

styles ==
  << <<"orange-gradient", orange_gradient>>,
     <<"blue-vibrant", blue_vibrant>>,
     <<"purple-deep", purple_deep>>,
     <<"emerald-fresh", emerald_fresh>>,
     <<"green-fresh", green_fresh>> >>

\* export const ventures (ventures.config.ts)
brainfruit ==
  [name |-> "brainfruit",
   domain |-> "brainfruit.com",
   style |-> "orange-gradient",
   logo |-> [initial |-> "b", position |-> "lowercase"],
   typography |-> [headingFont |-> "Bitter", bodyFont |-> "Roboto"],
   status |-> "active",
   description |-> "AI-First Venture Studio & Strategic Consulting"]

primovivo ==
  [name |-> "PRIMOVIVO",
   domain |-> "primovivo.com",
   style |-> "blue-vibrant",
   logo |-> [initial |-> "P", position |-> "uppercase"],
   typography |-> [headingFont |-> "Bitter", bodyFont |-> "Roboto"],
   status |-> "active",
   description |-> "Medical-Grade Living Analytics & Estate Intelligence"]

amorphing ==
  [name |-> "Amorphing",
   domain |-> "amorphing.com",
   style |-> "purple-deep",
   logo |-> [initial |-> "A", position |-> "uppercase"],
   typography |-> [headingFont |-> "Bitter", bodyFont |-> "Roboto"],
   status |-> "active",
   description |-> "AI Design System Platform"]

venture_04 ==
  [name |-> "Venture-04",
   domain |-> "venture-04.local",
   style |-> "emerald-fresh",
   logo |-> [initial |-> "V", position |-> "uppercase"],
   typography |-> [headingFont |-> "Bitter", bodyFont |-> "Roboto"],
   status |-> "pipeline",
   description |-> "Placeholder {U+2014} awaiting business assignment"]

green_p ==
  [name |-> "Green-P",
   domain |-> "green-p.ventures.brainfruit.com",
   style |-> "green-fresh",
   logo |-> [initial |-> "G", position |-> "uppercase"],
   typography |-> [headingFont |-> "Bitter", bodyFont |-> "Roboto"],
   status |-> "pipeline",
   description |-> "Sustainability Tech Platform"]

\* the Venture Table with a style reference that names no style
ventures_unknownStyle ==
  << <<"brainfruit", brainfruit>>,
     <<"primovivo", primovivo>>,
     <<"amorphing", amorphing>>,
     <<"venture-04", [venture_04 EXCEPT !.style = "emerald"]>>,
     <<"green-p", green_p>> >>

ventures ==
  << <<"brainfruit", brainfruit>>,
     <<"primovivo", primovivo>>,
     <<"amorphing", amorphing>>,
     <<"venture-04", venture_04>>,
     <<"green-p", green_p>> >>

-----------------------------------------------------------------------------
(* The JavaScript built-ins the code uses.                                 *)

\* Object.keys(obj)
ObjectKeys(obj) == [i \in 1..Len(obj) |-> obj[i][1]]

\* the properties every object literal inherits from Object.prototype
ObjectPrototypeProps ==
  {"constructor", "hasOwnProperty", "isPrototypeOf", "propertyIsEnumerable",
   "toLocaleString", "toString", "valueOf", "__proto__", "__defineGetter__",
   "__defineSetter__", "__lookupGetter__", "__lookupSetter__"}

\* the number of parameters (length) of the functions of Object.prototype
ObjectPrototypeLength ==
  [name \in ObjectPrototypeProps \ {"__proto__"} |->
     IF name \in {"toString", "toLocaleString", "valueOf"} THEN 0
     ELSE IF name \in {"__defineGetter__", "__defineSetter__"} THEN 2
     ELSE 1]

\* Object.prototype[name]: a function, written [type, name, length]
\* (constructor is the function Object); __proto__ reads as Object.prototype
InheritedProperty(name) ==
  IF name = "__proto__"
  THEN [type |-> "object", v |-> "Object.prototype"]
  ELSE [type |-> "function",
        name |-> IF name = "constructor" THEN "Object" ELSE name,
        length |-> ObjectPrototypeLength[name]]

\* obj[key] on an object literal: the value of the own property key, else the
\* property Object.prototype[key] found on the prototype chain, else undefined
Lookup(obj, key) ==
  IF \E i \in 1..Len(obj) : obj[i][1] = key
  THEN obj[CHOOSE i \in 1..Len(obj) : obj[i][1] = key][2]
  ELSE IF key \in ObjectPrototypeProps
  THEN InheritedProperty(key)
  ELSE Undefined

\* value has the own property prop (value is a record of one of the tables)
HasField(value, prop) == "type" \notin DOMAIN value /\ prop \in DOMAIN value

\* value.prop for the properties the source reads (style, name, wcagContrast,
\* accent, primary) of a value that is neither undefined nor null: the field
\* of a record, the name or length of a function, undefined otherwise
Get(value, prop) ==
  IF HasField(value, prop) THEN value[prop]
  ELSE IF "type" \in DOMAIN value /\ value.type = "function"
            /\ prop \in {"name", "length"}
  THEN value[prop]
  ELSE Undefined

\* how a call ends: with a value, or with a thrown Error
Return(value) == [kind |-> "return", value |-> value]

Throw(message) == [kind |-> "throw", name |-> "Error", message |-> message]

\* reading a property of undefined: the TypeError of the engine (V8 wording)
ThrowTypeError(prop) ==
  [kind |-> "throw", name |-> "TypeError",
   message |-> "Cannot read properties of undefined (reading '" \o prop \o "')"]

\* value is what a throwing call leaves instead of a return value
Thrown(value) == "kind" \in DOMAIN value /\ value.kind = "throw"

\* a call that evaluates to value ends with it: thrown, or returned
Completion(value) == IF Thrown(value) THEN value ELSE Return(value)

\* the position of the first element of an array among those at positions
\* hits (the positions that satisfy the predicate of find): 0 when none does
FirstOf(hits) ==
  IF hits = {} THEN 0 ELSE CHOOSE i \in hits : \A j \in hits : i <= j

UpperCaseLetters == "ABCDEFGHIJKLMNOPQRSTUVWXYZ"

LowerCaseLetters == "abcdefghijklmnopqrstuvwxyz"

CharAt(s, i) == SubSeq(s, i, i)

\* the small letter of each capital letter
LowerCaseOf ==
  [c \in {CharAt(UpperCaseLetters, i) : i \in 1..26} |->
     CharAt(LowerCaseLetters, CHOOSE i \in 1..26 : CharAt(UpperCaseLetters, i) = c)]

\* the lower-case form of one character (ASCII letters; the other characters
\* of the tables have no case)
lowerChar(c) == IF c \in DOMAIN LowerCaseOf THEN LowerCaseOf[c] ELSE c

RECURSIVE toLowerCase(_)
\* String.prototype.toLowerCase
toLowerCase(s) ==
  IF s = "" THEN "" ELSE lowerChar(Head(s)) \o toLowerCase(Tail(s))

\* String.prototype.includes
includes(s, search) ==
  \E i \in 0..(Len(s) - Len(search)) : SubSeq(s, i + 1, i + Len(search)) = search

-----------------------------------------------------------------------------
(* src/styles/styles.config.ts                                             *)

\* { key, ...record }: the record with the property key added
WithKey(key, rec) == [key |-> key] @@ rec

getStyle(S, key) == Lookup(S, key)

\* Object.entries(table).filter(category is c).map(tag with the key)
StylesOfCategory(S, c) ==
  LET kept == SelectSeq(S, LAMBDA e : e[2].category = c)
  IN  [i \in 1..Len(kept) |-> WithKey(kept[i][1], kept[i][2])]

getPrimaryStyles(S) == StylesOfCategory(S, "primary")

\* a getSecondaryStyles copied from getPrimaryStyles with its filter unchanged
getSecondaryStyles_primaryFilter(S) == StylesOfCategory(S, "primary")

getSecondaryStyles(S) == StylesOfCategory(S, "secondary")

\* a search that compares case-sensitively
getStyleByUsage_caseSensitive(S, usage) ==
  LET i == FirstOf({k \in 1..Len(S) : includes(S[k][2].usage, usage)})
  IN  IF i = 0 THEN Undefined ELSE S[i]

getStyleByUsage(S, usage) ==
  LET i == FirstOf({k \in 1..Len(S) :
               includes(toLowerCase(S[k][2].usage), toLowerCase(usage))})
  IN  \* find gives the first entry that matches, undefined when none does
      IF i = 0 THEN Undefined ELSE S[i]

styles_getContrastInfo(S, styleKey) ==
  LET style == getStyle(S, styleKey)
  IN  IF style = Undefined THEN ThrowTypeError("name")
      ELSE [style |-> Get(style, "name"),
            ratio |-> Get(style, "wcagContrast"),
            standard |-> "WCAG AAA",
            textColor |-> Get(style, "accent")]

-----------------------------------------------------------------------------
(* String.prototype.localeCompare and Array.prototype.sort                 *)

\* The primary order of the root collation (CLDR) on printable ASCII: space,
\* punctuation, symbols, digits, letters; a letter and its capital share a
\* primary weight.  (The grave accent, between % and ^, cannot be written in
\* a string of this module and is left out; no name of the table holds it.)
CollationOrder ==
  " _-,;:!?.'\"()[]{}@*/\\&#%^+<=>|~$0123456789abcdefghijklmnopqrstuvwxyz"

PrimaryWeightOf ==
  [c \in {CharAt(CollationOrder, i) : i \in 1..Len(CollationOrder)} |->
     CHOOSE i \in 1..Len(CollationOrder) : CharAt(CollationOrder, i) = c]

PrimaryWeight(c) ==
  IF lowerChar(c) \in DOMAIN PrimaryWeightOf THEN PrimaryWeightOf[lowerChar(c)] ELSE 0

\* the tertiary weight: a capital letter sorts after its small letter
TertiaryWeight(c) == IF lowerChar(c) # c THEN 1 ELSE 0

\* the weights of the characters of a string
PrimaryWeights(s) == [i \in 1..Len(s) |-> PrimaryWeight(CharAt(s, i))]

TertiaryWeights(s) == [i \in 1..Len(s) |-> TertiaryWeight(CharAt(s, i))]

\* the lexicographic comparison of two sequences of weights: -1, 0 or 1
CompareWeights(wa, wb) ==
  LET n == IF Len(wa) < Len(wb) THEN Len(wa) ELSE Len(wb)
      differ == {i \in 1..n : wa[i] # wb[i]}
  IN  IF differ # {}
      THEN LET i == CHOOSE k \in differ : \A j \in differ : k <= j
           IN  IF wa[i] < wb[i] THEN -1 ELSE 1
      ELSE IF Len(wa) < Len(wb) THEN -1
      ELSE IF Len(wa) > Len(wb) THEN 1
      ELSE 0

\* a.localeCompare(b) with the default collator: primary weights decide, then
\* case
localeCompare(a, b) ==
  IF CompareWeights(PrimaryWeights(a), PrimaryWeights(b)) # 0
  THEN CompareWeights(PrimaryWeights(a), PrimaryWeights(b))
  ELSE CompareWeights(TertiaryWeights(a), TertiaryWeights(b))

-----------------------------------------------------------------------------
(* src/ventures/ventures.config.ts                                         *)

getVenture(V, key) == Lookup(V, key)

\* Object.entries(ventures).filter(status is s).map(tag with the key)
VenturesOfStatus(V, s) ==
  LET kept == SelectSeq(V, LAMBDA e : e[2].status = s)
  IN  [i \in 1..Len(kept) |-> WithKey(kept[i][1], kept[i][2])]

getActiveVentures(V) == VenturesOfStatus(V, "active")

getPipelineVentures(V) == VenturesOfStatus(V, "pipeline")

\* a comparator without the status branch
compareVentures_nameOnly(a, b) == localeCompare(a.name, b.name)

\* the comparator of getAllVentures: active first, then pipeline; by name
\* within a status
compareVentures(a, b) ==
  IF a.status # b.status
  THEN (IF a.status = "active" THEN -1 ELSE 1)
  ELSE localeCompare(a.name, b.name)

\* arr.sort(compareVentures), which is stable (ECMAScript 2019): an element
\* comes after the elements that compare before it and after the earlier
\* elements that compare equal to it
Sort(arr) ==
  LET n == Len(arr)
      place == [i \in 1..n |->
                  1 + Cardinality({j \in 1..n :
                        \/ compareVentures(arr[j], arr[i]) < 0
                        \/ compareVentures(arr[j], arr[i]) = 0 /\ j < i})]
  IN  [p \in 1..n |-> arr[CHOOSE i \in 1..n : place[i] = p]]

getAllVentures(V) == Sort([i \in 1..Len(V) |-> WithKey(V[i][1], V[i][2])])

-----------------------------------------------------------------------------
(* More built-ins: the in operator, join, replace, JSON.stringify          *)

\* name in obj: an own property, or one found on the prototype chain
HasProperty(name, obj) ==
  \/ \E i \in 1..Len(obj) : obj[i][1] = name
  \/ name \in ObjectPrototypeProps

\* array.join(sep)
Join(arr, sep) ==
  LET joined[n \in 0..Len(arr)] ==
        IF n = 0 THEN ""
        ELSE IF n = 1 THEN arr[1]
        ELSE joined[n - 1] \o sep \o arr[n]
  IN  joined[Len(arr)]

RECURSIVE ReplaceAll(_, _, _)
\* s.replace(/c/g, by) for a one-character pattern c
ReplaceAll(s, c, by) ==
  IF s = "" THEN ""
  ELSE (IF Head(s) = c THEN by ELSE Head(s)) \o ReplaceAll(Tail(s), c, by)

\* one character inside a JSON string literal
JsonChar(c) ==
  IF c = "\"" THEN "\\\""
  ELSE IF c = "\\" THEN "\\\\"
  ELSE IF c = "\n" THEN "\\n"
  ELSE IF c = "\t" THEN "\\t"
  ELSE IF c = "\r" THEN "\\r"
  ELSE IF c = "\f" THEN "\\f"
  ELSE c

RECURSIVE JsonEscape(_)
JsonEscape(s) == IF s = "" THEN "" ELSE JsonChar(Head(s)) \o JsonEscape(Tail(s))

\* JSON.stringify of a string
JsonString(s) == "\"" \o JsonEscape(s) \o "\""

RECURSIVE Indent(_)
\* the indentation of nesting depth d under JSON.stringify(_, null, 2)
Indent(d) == IF d = 0 THEN "" ELSE "  " \o Indent(d - 1)

\* an object of the given <<name, serialized value>> members at depth d
JsonObject(members, d) ==
  IF Len(members) = 0 THEN "{}"
  ELSE "{\n"
       \o Join([i \in 1..Len(members) |->
                  Indent(d + 1) \o JsonString(members[i][1]) \o ": "
                  \o members[i][2]], ",\n")
       \o "\n" \o Indent(d) \o "}"

\* an array of the given serialized items at depth d
JsonArray(items, d) ==
  IF Len(items) = 0 THEN "[]"
  ELSE "[\n"
       \o Join([i \in 1..Len(items) |-> Indent(d + 1) \o items[i]], ",\n")
       \o "\n" \o Indent(d) \o "]"

\* property order of the records (insertion order of the literals)
StyleProps ==
  <<"name", "primary", "primaryLight", "secondary", "accent", "gradient",
    "wcagContrast", "ral", "category", "usage", "note">>

LogoProps == <<"initial", "position">>

TypographyProps == <<"headingFont", "bodyFont">>

\* an object whose properties are all strings: props gives their order, and
\* an optional property the record lacks (note) is not serialized
JsonFlatObject(rec, props, d) ==
  LET own == SelectSeq(props, LAMBDA p : p \in DOMAIN rec)
  IN  JsonObject([i \in 1..Len(own) |-> <<own[i], JsonString(rec[own[i]])>>], d)

JsonVenture(v, d) ==
  JsonObject(<< <<"name", JsonString(v.name)>>,
                <<"domain", JsonString(v.domain)>>,
                <<"style", JsonString(v.style)>>,
                <<"logo", JsonFlatObject(v.logo, LogoProps, d + 1)>>,
                <<"typography", JsonFlatObject(v.typography, TypographyProps, d + 1)>>,
                <<"status", JsonString(v.status)>>,
                <<"description", JsonString(v.description)>> >>, d)

\* JSON.stringify(allVentures, null, 2) for an array of {key, venture, style}
JsonStringify(allVentures) ==
  JsonArray([i \in 1..Len(allVentures) |->
               JsonObject(<< <<"key", JsonString(allVentures[i].key)>>,
                             <<"venture", JsonVenture(allVentures[i].venture, 2)>>,
                             <<"style", JsonFlatObject(allVentures[i].style,
                                                       StyleProps, 2)>> >>, 1)],
            0)

-----------------------------------------------------------------------------
(* src/utilities/venture.ts                                                *)

\* venture.style throws on undefined; styles[undefined] reads the property
\* named "undefined"
getVentureWithStyle(V, S, ventureKey) ==
  LET venture == getVenture(V, ventureKey)
      style == IF HasField(venture, "style")
               THEN getStyle(S, venture.style)
               ELSE getStyle(S, "undefined")
  IN  IF venture = Undefined THEN ThrowTypeError("style")
      ELSE [key |-> ventureKey, venture |-> venture, style |-> style]

\* ({ key, ...venture }): the properties other than key
WithoutKey(rec) == [p \in DOMAIN rec \ {"key"} |-> rec[p]]

\* the callback of the three ...WithStyles functions
joinStyle(S, keyed) ==
  [key |-> keyed.key,
   venture |-> WithoutKey(keyed),
   style |-> getStyle(S, WithoutKey(keyed).style)]

\* list.map(joinStyle)
JoinStyles(S, list) == [i \in 1..Len(list) |-> joinStyle(S, list[i])]

getActiveVenturesWithStyles(V, S) == JoinStyles(S, getActiveVentures(V))

\* a getPipelineVenturesWithStyles copied from the active one with its
\* accessor unchanged
getPipelineVenturesWithStyles_active(V, S) == JoinStyles(S, getActiveVentures(V))

getPipelineVenturesWithStyles(V, S) == JoinStyles(S, getPipelineVentures(V))

getAllVenturesWithStyles(V, S) == JoinStyles(S, getAllVentures(V))

\* value is [type |-> typeof value, v |-> value]
isValidVentureKey(V, value) ==
  value.type = "string" /\ HasProperty(value.v, V)

\* a lookup that compares domains without regard to case
getVentureByDomain_ignoreCase(V, S, domain) ==
  LET keys == ObjectKeys(V)
      i == FirstOf({k \in 1..Len(keys) :
             toLowerCase(getVenture(V, keys[k]).domain) = toLowerCase(domain)})
  IN  IF i # 0 /\ keys[i] # "" THEN getVentureWithStyle(V, S, keys[i]) ELSE Null

getVentureByDomain(V, S, domain) ==
  LET keys == ObjectKeys(V)
      i == FirstOf({k \in 1..Len(keys) : getVenture(V, keys[k]).domain = domain})
  IN  \* find gives keys[i], undefined when i = 0; key ? ... : null, where
      \* undefined and the empty string are falsy
      IF i # 0 /\ keys[i] # "" THEN getVentureWithStyle(V, S, keys[i]) ELSE Null

formatVentureStatus(status) ==
  IF status = "active" THEN "Top-3" ELSE "Pipeline (Second-7)"

getContrastInfo(V, S, ventureKey) ==
  LET joined == getVentureWithStyle(V, S, ventureKey)
      style == joined.style
  IN  IF Thrown(joined) THEN joined
      ELSE IF style = Undefined THEN ThrowTypeError("name")
      ELSE [venture |-> Get(style, "name"),
            ratio |-> Get(style, "wcagContrast"),
            level |-> "WCAG AAA",
            foreground |-> Get(style, "primary"),
            background |-> "#1a1a1a"]

getColorFormats(hex) == [hex |-> hex]

csvHeaders == <<"Key", "Name", "Domain", "Style", "Status", "Primary Color">>

csvRow(v) ==
  <<v.key, v.venture.name, v.venture.domain, v.venture.style,
    v.venture.status, v.style.primary>>

\* a row callback without the replace
csvLine_commas(row) == Join(row, ",")

\* (row) => row.join(',').replace(/,/g, '\t')
csvLine(row) == ReplaceAll(Join(row, ","), ",", "\t")

exportCsv(allVentures) ==
  LET rows == [i \in 1..Len(allVentures) |-> csvRow(allVentures[i])]
      all == <<csvHeaders>> \o rows
  IN  Join([i \in 1..Len(all) |-> csvLine(all[i])], "\n")

mdRow(v) ==
  "| " \o v.key \o " | " \o v.venture.name \o " | " \o v.venture.domain
  \o " | " \o v.venture.style \o " | " \o v.venture.status
  \o " | <span style=\"color:" \o v.style.primary
  \o "\">{U+201A}{U+00F3}{U+00E8}</span> " \o v.style.primary \o " |\n"

exportMd(allVentures) ==
  LET md[n \in 0..Len(allVentures)] ==
        IF n = 0 THEN "| Key | Name | Domain | Style | Status | Color |\n"
                      \o "|-|-|-|-|-|-|\n"
        ELSE md[n - 1] \o mdRow(allVentures[n])
  IN  md[Len(allVentures)]

\* a switch without its default branch: the function falls off its end
exportVentureRegistry_noDefault(V, S, format) ==
  LET allVentures == getAllVenturesWithStyles(V, S)
  IN  IF format = "json" THEN Return(JsonStringify(allVentures))
      ELSE IF format = "csv" THEN Return(exportCsv(allVentures))
      ELSE IF format = "md" THEN Return(exportMd(allVentures))
      ELSE Return(Undefined)

\* format is a string; the result is Return(text) or Throw(message)
exportVentureRegistry(V, S, format) ==
  LET allVentures == getAllVenturesWithStyles(V, S)
  IN  IF format = "json" THEN Return(JsonStringify(allVentures))
      ELSE IF format = "csv" THEN Return(exportCsv(allVentures))
      ELSE IF format = "md" THEN Return(exportMd(allVentures))
      ELSE Throw("Unsupported export format: " \o format)

-----------------------------------------------------------------------------
(* The inputs the functions are called with.                               *)

MaxUsageLen == 1

MaxFieldLen == 2

\* every string of at most n characters of the alphabet
StringsUpTo(alphabet, n) ==
  LET upTo[k \in 0..n] ==
        IF k = 0 THEN {""}
        ELSE upTo[k - 1] \cup {s \o c : s \in upTo[k - 1], c \in alphabet}
  IN  upTo[n]

StyleKeyInputs == {"orange-gradient", "blue-vibrant", "purple-deep",
                   "emerald-fresh", "green-fresh"}

VentureKeyInputs == {"brainfruit", "primovivo", "amorphing", "venture-04",
                     "green-p"}

\* strings that reach a lookup at run time: the declared keys, names of
\* inherited properties, and a name no object has
StyleKeyStrings ==
  StyleKeyInputs \cup {"constructor", "toString", "__proto__", "not-a-style"}

VentureKeyStrings ==
  VentureKeyInputs \cup {"toString", "constructor", "__proto__",
                         "not-a-venture"}

UsageInputs ==
  {"Amorphing", "BRAND", "venture", "VENTURES", "awaiting business", "Green-P",
   "pl", "Pl", "lp", "brainfruit main brand", "nothing", "brand "}
  \cup StringsUpTo({"p", "P", "l", "L"}, MaxUsageLen)

\* values of any type, as [type |-> typeof value, v |-> value]
ValueInputs ==
  {[type |-> "string", v |-> k] :
     k \in VentureKeyInputs \cup {"not-a-venture", "Amorphing", "", "toString",
                                  "constructor", "hasOwnProperty", "name"}}
  \cup {[type |-> "number", v |-> 42], [type |-> "number", v |-> 0],
        [type |-> "boolean", v |-> TRUE], Undefined,
        [type |-> "object", v |-> Null]}

DomainInputs ==
  {"brainfruit.com", "primovivo.com", "amorphing.com", "venture-04.local",
   "green-p.ventures.brainfruit.com", "nonexistent.tld", "PRIMOVIVO.COM",
   "Primovivo.com", "primovivo.com ", "primovivo", ""}

StatusInputs == {"active", "pipeline"}

HexInputs == {"#ff6b35", "#3399ff", "#8b5cf6", "#10b981", "#22c55e"}

FormatInputs ==
  {"json", "csv", "md", "xml", "", "JSON", "Csv", "md ", "markdown", "tsv",
   "toString"}

\* rows as the csv branch builds them, with free-text name and domain fields
\* that may hold commas
CsvRowInputs ==
  {<<"k", name, domain, "orange-gradient", "active", "#ff6b35">> :
     name \in StringsUpTo({"a", ","}, MaxFieldLen), domain \in {"d.com", "d,com"}}

---------------------------------------------------------------------------------------
(* The state machine: one action per function.                             *)

NoCall == [fn |-> "none", arg |-> <<>>]

NoResult == [kind |-> "none"]

Init ==
  /\ styleTable = styles
  /\ ventureTable = ventures
  /\ lastCall = NoCall
  /\ result = NoResult

\* how the call c ends when the tables are V and S: the functions by name
Outcome(V, S, c) ==
  CASE c.fn = "getStyle" -> Return(getStyle(S, c.arg))
    [] c.fn = "getPrimaryStyles" -> Return(getPrimaryStyles(S))
    [] c.fn = "getSecondaryStyles" -> Return(getSecondaryStyles(S))
    [] c.fn = "getStyleByUsage" -> Return(getStyleByUsage(S, c.arg))
    [] c.fn = "styles.getContrastInfo" ->
         Completion(styles_getContrastInfo(S, c.arg))
    [] c.fn = "getVenture" -> Return(getVenture(V, c.arg))
    [] c.fn = "getActiveVentures" -> Return(getActiveVentures(V))
    [] c.fn = "getPipelineVentures" -> Return(getPipelineVentures(V))
    [] c.fn = "getAllVentures" -> Return(getAllVentures(V))
    [] c.fn = "getVentureWithStyle" ->
         Completion(getVentureWithStyle(V, S, c.arg))
    [] c.fn = "getActiveVenturesWithStyles" -> Return(getActiveVenturesWithStyles(V, S))
    [] c.fn = "getPipelineVenturesWithStyles" -> Return(getPipelineVenturesWithStyles(V, S))
    [] c.fn = "getAllVenturesWithStyles" -> Return(getAllVenturesWithStyles(V, S))
    [] c.fn = "isValidVentureKey" -> Return(isValidVentureKey(V, c.arg))
    [] c.fn = "getVentureByDomain" -> Return(getVentureByDomain(V, S, c.arg))
    [] c.fn = "formatVentureStatus" -> Return(formatVentureStatus(c.arg))
    [] c.fn = "getContrastInfo" -> Completion(getContrastInfo(V, S, c.arg))
    [] c.fn = "getColorFormats" -> Return(getColorFormats(c.arg))
    [] c.fn = "exportVentureRegistry" -> exportVentureRegistry(V, S, c.arg)
    [] c.fn = "csvLine" -> Return(csvLine(c.arg))

\* the call is recorded; no function writes a table
Called(fn, arg) ==
  /\ lastCall' = [fn |-> fn, arg |-> arg]
  /\ UNCHANGED <<styleTable, ventureTable>>

CallGetStyle ==
  \E key \in StyleKeyStrings :
    /\ result' = Return(getStyle(styleTable, key))
    /\ Called("getStyle", key)

CallGetPrimaryStyles ==
  /\ result' = Return(getPrimaryStyles(styleTable))
  /\ Called("getPrimaryStyles", <<>>)

CallGetSecondaryStyles ==
  /\ result' = Return(getSecondaryStyles(styleTable))
  /\ Called("getSecondaryStyles", <<>>)

CallGetStyleByUsage ==
  \E usage \in UsageInputs :
    /\ result' = Return(getStyleByUsage(styleTable, usage))
    /\ Called("getStyleByUsage", usage)

CallStylesGetContrastInfo ==
  \E styleKey \in StyleKeyStrings :
    /\ result' = Completion(styles_getContrastInfo(styleTable, styleKey))
    /\ Called("styles.getContrastInfo", styleKey)

CallGetVenture ==
  \E key \in VentureKeyStrings :
    /\ result' = Return(getVenture(ventureTable, key))
    /\ Called("getVenture", key)

CallGetActiveVentures ==
  /\ result' = Return(getActiveVentures(ventureTable))
  /\ Called("getActiveVentures", <<>>)

CallGetPipelineVentures ==
  /\ result' = Return(getPipelineVentures(ventureTable))
  /\ Called("getPipelineVentures", <<>>)

\* a getAllVentures that sorted the table itself instead of a copy of its
\* entries
CallGetAllVentures_sortsTable ==
  /\ result' = Return(getAllVentures(ventureTable))
  /\ lastCall' = [fn |-> "getAllVentures", arg |-> <<>>]
  /\ ventureTable' = [i \in 1..Len(ventureTable) |->
                         <<getAllVentures(ventureTable)[i].key,
                           WithoutKey(getAllVentures(ventureTable)[i])>>]
  /\ UNCHANGED styleTable

\* Object.entries and map build new arrays: sort reorders the copy
CallGetAllVentures ==
  /\ result' = Return(getAllVentures(ventureTable))
  /\ Called("getAllVentures", <<>>)

CallGetVentureWithStyle ==
  \E ventureKey \in VentureKeyStrings :
    /\ result' = Completion(
        getVentureWithStyle(ventureTable, styleTable, ventureKey))
    /\ Called("getVentureWithStyle", ventureKey)

CallGetActiveVenturesWithStyles ==
  /\ result' = Return(getActiveVenturesWithStyles(ventureTable, styleTable))
  /\ Called("getActiveVenturesWithStyles", <<>>)

CallGetPipelineVenturesWithStyles ==
  /\ result' = Return(getPipelineVenturesWithStyles(ventureTable, styleTable))
  /\ Called("getPipelineVenturesWithStyles", <<>>)

CallGetAllVenturesWithStyles ==
  /\ result' = Return(getAllVenturesWithStyles(ventureTable, styleTable))
  /\ Called("getAllVenturesWithStyles", <<>>)

CallIsValidVentureKey ==
  \E value \in ValueInputs :
    /\ result' = Return(isValidVentureKey(ventureTable, value))
    /\ Called("isValidVentureKey", value)

CallGetVentureByDomain ==
  \E domain \in DomainInputs :
    /\ result' = Return(getVentureByDomain(ventureTable, styleTable, domain))
    /\ Called("getVentureByDomain", domain)

CallFormatVentureStatus ==
  \E status \in StatusInputs :
    /\ result' = Return(formatVentureStatus(status))
    /\ Called("formatVentureStatus", status)

CallGetContrastInfo ==
  \E ventureKey \in VentureKeyStrings :
    /\ result' =
         Completion(getContrastInfo(ventureTable, styleTable, ventureKey))
    /\ Called("getContrastInfo", ventureKey)

CallGetColorFormats ==
  \E hex \in HexInputs :
    /\ result' = Return(getColorFormats(hex))
    /\ Called("getColorFormats", hex)

CallExportVentureRegistry ==
  \E format \in FormatInputs :
    /\ result' = exportVentureRegistry(ventureTable, styleTable, format)
    /\ Called("exportVentureRegistry", format)

\* the row callback of the csv branch, applied to a row of its own
CallCsvLine ==
  \E row \in CsvRowInputs :
    /\ result' = Return(csvLine(row))
    /\ Called("csvLine", row)

Next ==
  \/ CallGetStyle
  \/ CallGetPrimaryStyles
  \/ CallGetSecondaryStyles
  \/ CallGetStyleByUsage
  \/ CallStylesGetContrastInfo
  \/ CallGetVenture
  \/ CallGetActiveVentures
  \/ CallGetPipelineVentures
  \/ CallGetAllVentures
  \/ CallGetVentureWithStyle
  \/ CallGetActiveVenturesWithStyles
  \/ CallGetPipelineVenturesWithStyles
  \/ CallGetAllVenturesWithStyles
  \/ CallIsValidVentureKey
  \/ CallGetVentureByDomain
  \/ CallFormatVentureStatus
  \/ CallGetContrastInfo
  \/ CallGetColorFormats
  \/ CallExportVentureRegistry
  \/ CallCsvLine

Spec == Init /\ [][Next]_vars

-----------------------------------------------------------------------------
(* The claims.                                                             *)

\* the least element of a non-empty set of numbers
Least(set) == CHOOSE k \in set : \A j \in set : k <= j

\* the position of key in a table
PositionOf(tbl, key) == Least({i \in 1..Len(tbl) : tbl[i][1] = key})

\* C1: getAllVentures() returns every venture of the Venture Table exactly
\* once, each tagged with its key; every active entry precedes every pipeline
\* entry; within a status the names ascend under locale comparison.  For the
\* shipped table: Amorphing, brainfruit, PRIMOVIVO, then Green-P, Venture-04.
C1_AllVenturesSorted ==
  lastCall.fn = "getAllVentures" =>
    LET r == result.value
        n == Len(r)
    IN  /\ result.kind = "return"
        /\ n = Len(ventureTable)
        /\ \A e \in 1..Len(ventureTable) :
             Cardinality({i \in 1..n : r[i].key = ventureTable[e][1]}) = 1
        /\ \A i \in 1..n :
             LET rec == Lookup(ventureTable, r[i].key)
             IN  /\ DOMAIN r[i] = DOMAIN rec \cup {"key"}
                 /\ \A p \in DOMAIN rec : r[i][p] = rec[p]
        /\ \A i, j \in 1..n :
             i < j => ~(r[i].status = "pipeline" /\ r[j].status = "active")
        /\ \A i, j \in 1..n :
             (i < j /\ r[i].status = r[j].status)
               => localeCompare(r[i].name, r[j].name) <= 0
        /\ [i \in 1..n |-> r[i].name]
             = <<"Amorphing", "brainfruit", "PRIMOVIVO", "Green-P", "Venture-04">>

C1_Witness ==
  /\ lastCall.fn = "getAllVentures"
  /\ result.value[1].key = "amorphing"
  /\ result.value[3].status = "active"
  /\ result.value[4].key = "green-p"

\* C2: isValidVentureKey(v) is true if and only if v is a string and one of
\* the declared venture keys; false for every non-string and for every other
\* string, the names of inherited properties ('toString') included.
C2_ValidKeyIffDeclared ==
  lastCall.fn = "isValidVentureKey" =>
    (result.value <=>
       /\ lastCall.arg.type = "string"
       /\ \E i \in 1..Len(ventureTable) : ventureTable[i][1] = lastCall.arg.v)

\* C3: exportVentureRegistry(format) with a format other than 'json', 'csv'
\* and 'md' ends with a thrown Error whose message says the format is
\* unsupported and names it; it returns no string then; and it returns a
\* (non-empty) string, without failing, for the three supported formats.
C3_UnsupportedFormatThrows ==
  lastCall.fn = "exportVentureRegistry" =>
    IF lastCall.arg \in {"json", "csv", "md"}
    THEN /\ result.kind = "return"
         /\ Len(result.value) > 0
    ELSE /\ result.kind = "throw"
         /\ result.name = "Error"
         /\ includes(result.message, "Unsupported export format")
         /\ SubSeq(result.message, Len(result.message) - Len(lastCall.arg) + 1,
                   Len(result.message)) = lastCall.arg

C3_Witness ==
  /\ lastCall.fn = "exportVentureRegistry"
  /\ lastCall.arg = "xml"
  /\ result.kind = "throw"
  /\ includes(result.message, "xml")

\* the fields of a row joined by tabs, each comma of a field being a tab too
TabJoined(fields) ==
  Join([i \in 1..Len(fields) |-> ReplaceAll(fields[i], ",", "\t")], "\t")

\* C4: exportVentureRegistry('csv') is the header row followed by one row per
\* venture in the order of getAllVenturesWithStyles(), separated by newlines;
\* a row is its fields (key, name, domain, style key, status, primary colour
\* of the style) with a tab between them and every comma of a field turned
\* into a tab, so no comma is left in the output.
C4_CsvIsTabSeparated ==
  /\ (lastCall.fn = "exportVentureRegistry" /\ lastCall.arg = "csv") =>
       LET all == getAllVenturesWithStyles(ventureTable, styleTable)
           header == <<"Key", "Name", "Domain", "Style", "Status", "Primary Color">>
           row(e) == <<e.key, e.venture.name, e.venture.domain, e.venture.style,
                       e.venture.status,
                       Lookup(styleTable, e.venture.style).primary>>
           lines == <<TabJoined(header)>>
                      \o [i \in 1..Len(all) |-> TabJoined(row(all[i]))]
       IN  /\ result.kind = "return"
           /\ Len(lines) = 1 + Len(ventureTable)
           /\ result.value = Join(lines, "\n")
           /\ ~includes(result.value, ",")
  /\ lastCall.fn = "csvLine" =>
       /\ result.value = TabJoined(lastCall.arg)
       /\ ~includes(result.value, ",")

C4_Witness ==
  /\ lastCall.fn = "exportVentureRegistry"
  /\ lastCall.arg = "csv"
  /\ includes(result.value, "Key\tName\tDomain\tStyle\tStatus\tPrimary Color\n")
  /\ includes(result.value,
              "\nprimovivo\tPRIMOVIVO\tprimovivo.com\tblue-vibrant\tactive\t#3399ff\n")

\* C5: getVentureByDomain(d) returns the joined {key, venture, style} of the
\* first venture in table order whose domain equals d exactly, and null when
\* there is none; 'primovivo.com' gives key 'primovivo', 'nonexistent.tld'
\* gives null.
C5_VentureByDomain ==
  lastCall.fn = "getVentureByDomain" =>
    LET d == lastCall.arg
        hits == {i \in 1..Len(ventureTable) : ventureTable[i][2].domain = d}
    IN  /\ result.kind = "return"
        /\ IF hits = {} THEN result.value = Null
           ELSE result.value =
                  [key |-> ventureTable[Least(hits)][1],
                   venture |-> ventureTable[Least(hits)][2],
                   style |-> Lookup(styleTable, ventureTable[Least(hits)][2].style)]
        /\ d = "primovivo.com" => result.value.key = "primovivo"
        /\ d = "nonexistent.tld" => result.value = Null
        /\ d = "PRIMOVIVO.COM" => result.value = Null

C5_Witness ==
  /\ lastCall.fn = "getVentureByDomain"
  /\ lastCall.arg = "primovivo.com"
  /\ result.value.key = "primovivo"
  /\ result.value.style.name = "Blue Vibrant"

\* C6: referential integrity: the style of every venture is a key of the
\* Style Table, so getVentureWithStyle(k) returns a defined style record, the
\* one getStyle gives for getVenture(k).style.
C6_ReferentialIntegrity ==
  /\ \A i \in 1..Len(ventureTable) :
       \E j \in 1..Len(styleTable) : styleTable[j][1] = ventureTable[i][2].style
  /\ (/\ lastCall.fn = "getVentureWithStyle"
      /\ \E i \in 1..Len(ventureTable) : ventureTable[i][1] = lastCall.arg) =>
       /\ result.kind = "return"
       /\ result.value.key = lastCall.arg
       /\ result.value.venture = getVenture(ventureTable, lastCall.arg)
       /\ \E j \in 1..Len(styleTable) : result.value.style = styleTable[j][2]
       /\ result.value.style
            = getStyle(styleTable, getVenture(ventureTable, lastCall.arg).style)

C6_Witness ==
  /\ lastCall.fn = "getVentureWithStyle"
  /\ lastCall.arg = "venture-04"
  /\ result.value.style.name = "Emerald Fresh"

\* r joins each entry of base to its style, in the order of base
JoinsInOrder(V, S, base, r) ==
  /\ Len(r) = Len(base)
  /\ \A i \in 1..Len(base) :
       /\ DOMAIN r[i] = {"key", "venture", "style"}
       /\ r[i].key = base[i].key
       /\ r[i].venture = Lookup(V, base[i].key)
       /\ r[i].style = Lookup(S, base[i].style)

\* C7: the three ...WithStyles functions return one {key, venture, style} per
\* entry of getActiveVentures(), getPipelineVentures() and getAllVentures(),
\* in that order: key is the venture's key, venture its fields, style the
\* Style Table record of its style key.
C7_WithStylesFollowAccessors ==
  /\ lastCall.fn = "getActiveVenturesWithStyles" =>
       JoinsInOrder(ventureTable, styleTable,
                    getActiveVentures(ventureTable), result.value)
  /\ lastCall.fn = "getPipelineVenturesWithStyles" =>
       JoinsInOrder(ventureTable, styleTable,
                    getPipelineVentures(ventureTable), result.value)
  /\ lastCall.fn = "getAllVenturesWithStyles" =>
       JoinsInOrder(ventureTable, styleTable,
                    getAllVentures(ventureTable), result.value)

C7_Witness ==
  /\ lastCall.fn = "getPipelineVenturesWithStyles"
  /\ Len(result.value) = 2
  /\ result.value[1].key = "venture-04"
  /\ result.value[2].style.name = "Green Fresh"

\* C8: after any sequence of calls (getAllVentures, which sorts, and the
\* failing exportVentureRegistry included) both tables are as they were
\* constructed, in content and key order, and a call ends as the same call
\* ends on the tables as constructed.
C8_TablesNeverChange ==
  /\ styleTable = styles
  /\ ventureTable = ventures
  /\ lastCall.fn # "none" => result = Outcome(ventures, styles, lastCall)

C8_Witness ==
  /\ lastCall.fn = "getActiveVentures"
  /\ ObjectKeys(ventureTable)
       = <<"brainfruit", "primovivo", "amorphing", "venture-04", "green-p">>
  /\ [i \in 1..Len(result.value) |-> result.value[i].key]
       = <<"brainfruit", "primovivo", "amorphing">>

\* C9: every style has category 'primary' or 'secondary' and is in exactly one
\* of getPrimaryStyles() and getSecondaryStyles(), once; each list is in table
\* order; the two lists hold every style key.
C9_StylesPartitioned ==
  LET prim == getPrimaryStyles(styleTable)
      sec == getSecondaryStyles(styleTable)
      count(list, k) == Cardinality({i \in 1..Len(list) : list[i].key = k})
      inTableOrder(list) ==
        \A i, j \in 1..Len(list) :
          i < j => PositionOf(styleTable, list[i].key)
                     < PositionOf(styleTable, list[j].key)
  IN  /\ \A e \in 1..Len(styleTable) :
           /\ getStyle(styleTable, styleTable[e][1]).category
                \in {"primary", "secondary"}
           /\ count(prim, styleTable[e][1]) + count(sec, styleTable[e][1]) = 1
      /\ Len(prim) + Len(sec) = Len(styleTable)
      /\ inTableOrder(prim)
      /\ inTableOrder(sec)
      /\ lastCall.fn = "getPrimaryStyles" => result.value = prim
      /\ lastCall.fn = "getSecondaryStyles" => result.value = sec

C9_Witness ==
  /\ lastCall.fn = "getSecondaryStyles"
  /\ Len(result.value) = 1
  /\ result.value[1].key = "green-fresh"

\* usage holds s somewhere, letters compared without regard to case
HoldsIgnoringCase(usage, s) ==
  \E off \in 0..(Len(usage) - Len(s)) :
    \A j \in 1..Len(s) :
      lowerChar(CharAt(usage, off + j)) = lowerChar(CharAt(s, j))

\* C10: getStyleByUsage(s) returns the (key, record) pair of the first style
\* in table order whose usage holds s, case ignored, and undefined when no
\* usage holds s.
C10_FirstStyleByUsage ==
  lastCall.fn = "getStyleByUsage" =>
    LET hits == {i \in 1..Len(styleTable) :
                   HoldsIgnoringCase(styleTable[i][2].usage, lastCall.arg)}
    IN  IF hits = {} THEN result.value = Undefined
        ELSE styleTable[Least(hits)] = result.value

C10_Witness ==
  /\ lastCall.fn = "getStyleByUsage"
  /\ lastCall.arg = "Pl"
  /\ result.value[1] = "purple-deep"

====
